---- MODULE Spec2Model ----
(***************************************************************************)
(* Hotelix chatbot: the recommendation engine (ai/recommendation.py) and   *)
(* the orchestration of one conversation turn (chatbot/views.py).          *)
(*                                                                         *)
(* Encoding of Python values                                               *)
(*   dict        a function whose DOMAIN is the set of keys present; a key *)
(*               that is missing and a key bound to None are both read by  *)
(*               dict.get() as None, and are modelled as a missing key.    *)
(*   Optional    <<>> is None, <<v>> is the value v.                       *)
(*   float       an exact rational.  Scores are held in units of 1/Scale   *)
(*               point, ratings in units of 1/RatingUnit star.  The value  *)
(*               sets below are chosen so that every quotient is exact.    *)
(*   list        a sequence.                                               *)
(***************************************************************************)
EXTENDS Integers, Sequences, FiniteSets, TLC

VARIABLES
    \* ---- RecommendationEngine.rank_hotels ----
    heap,           \* the dict objects: heap[ref] is the dict with reference ref
    hotels,         \* argument `hotels`: the list of references passed in
    user_prefs,     \* argument `user_prefs`
    scored_hotels,  \* local list scored_hotels (references)
    ranked,         \* the returned list (references)
    rpc,            \* position in rank_hotels: "idle" | "loop" | "done"
    heap0,          \* history: the heap as it was when rank_hotels was called
    contrib         \* history: per scored hotel, what each block added to score

rankVars == <<heap, hotels, user_prefs, scored_hotels, ranked, rpc, heap0, contrib>>

VARIABLES
    \* ---- ChatbotViewSet.send_message, one conversation ----
    stored,          \* the UserSearchPreference row of the session, as saved
    prefs,           \* local `prefs`: the model object held by the running turn
    intent_data,     \* local `intent_data`, from parse_user_intent until it is merged
    intent,          \* local `intent`
    pc,              \* "idle" | "parse" | "merge" | "gate" | "search"
    response,        \* what the last turn returned to the caller
    turn_messages,   \* Message rows created by the current turn
    saved_recs,      \* HotelRecommendation rows created by the current turn
    prefs0,          \* history: `stored` when the current turn began
    search_calls,    \* history: calls of booking_client.search_hotels in this turn
    rank_calls,      \* history: calls of rec_engine.rank_hotels in this turn
    render_calls,    \* history: calls of ai_engine.generate_response in this turn
    aborted_at,      \* history: where the caller aborted this turn, "" if it did not
    llm_outcome,     \* history: what the completion service did in this turn
    search_failed,   \* history: the step of the search branch that raised, "" if none
    found_n          \* history: the number of offers the provider returned in this turn

turnVars == <<stored, prefs, intent_data, intent, pc, response, turn_messages, saved_recs,
              prefs0, search_calls, rank_calls, render_calls, aborted_at,
              llm_outcome, search_failed, found_n>>

VARIABLES
    \* ---- MakcorpsClient.search_hotels, one call ----
    mpc,             \* "idle" | "start" | "city" | "mapping" | "booking" | "done"
    location,        \* argument `location`
    direct,          \* the /city call in progress was made on the integer path (line 230)
    city_id,         \* the identifier searched for, None before one is known
    requests_made,   \* history: the provider paths requested, in order
    returned,        \* the returned list, None when none was returned
    raised,          \* an exception left search_hotels
    city_data,       \* history: what the provider did with the last /city request
    mapping_items,   \* history: what mapping(name) returned
    chosen           \* history: what _choose_id_from_mapping returned, None if it did not

makVars == <<mpc, location, direct, city_id, requests_made, returned, raised, city_data,
             mapping_items, chosen>>

vars == <<rankVars, turnVars, makVars>>

(***************************************************************************)
(* Units                                                                   *)
(***************************************************************************)
Scale == 2 * 60         \* a score s is held as s * Scale
RatingUnit == 2 * 2     \* a rating r is held as r * RatingUnit

None == <<>>
Some(v) == <<v>>

Max2(a, b) == IF a >= b THEN a ELSE b
Min2(a, b) == IF a <= b THEN a ELSE b

\* dict.get(key): None when the key is missing
Get(d, k) == IF k \in DOMAIN d THEN Some(d[k]) ELSE None

\* d[key] = value
SetItem(d, k, v) == (k :> v) @@ d

\* Python truthiness of an optional number / optional list
TruthyNum(o) == o # None /\ o[1] # 0
TruthyList(o) == o # None /\ Len(o[1]) > 0

\* `a or b` on optional numbers
OrNum(a, b) == IF TruthyNum(a) THEN a ELSE b

\* set(list)
ToSet(s) == {s[k] : k \in DOMAIN s}

\* _to_float(value, default=0.0): float(None) raises TypeError -> default
to_float(o) == IF o = None THEN 0 ELSE o[1]

(***************************************************************************)
(* calculate_score, block by block.  Each operator is what the block adds  *)
(* to `score`, in units of 1/Scale.                                        *)
(***************************************************************************)
\* faulty variant: the upper clamp is lost
Rating10_NoCap(hotel) ==
    LET rating_raw == to_float(OrNum(Get(hotel, "rating"), Get(hotel, "rating_raw")))
    IN  Max2(0, rating_raw * 2)

Rating10(hotel) ==
    LET rating_raw == to_float(OrNum(Get(hotel, "rating"), Get(hotel, "rating_raw")))
    IN  \* max(0.0, min(rating_raw * 2.0, 10.0)), in units of 1/RatingUnit
        Max2(0, Min2(rating_raw * 2, 10 * RatingUnit))

\* faulty variant: `<` for `<=`, an offer exactly at budget is penalised
PriceScore_Strict(hotel, uprefs) ==
    LET budget == to_float(Get(uprefs, "budget_max"))
        price  == to_float(OrNum(Get(hotel, "price"), Get(hotel, "price_per_night")))
    IN  IF budget > 0
        THEN IF price < budget
             THEN (30 * Scale * (budget - price)) \div budget
             ELSE -(5 * Scale)
        ELSE 15 * Scale

PriceScore(hotel, uprefs) ==
    LET budget == to_float(Get(uprefs, "budget_max"))
        price  == to_float(OrNum(Get(hotel, "price"), Get(hotel, "price_per_night")))
    IN  IF budget > 0
        THEN IF price <= budget
             THEN (30 * Scale * (budget - price)) \div budget
             ELSE -(5 * Scale)
        ELSE 15 * Scale

RatingScore(hotel) ==
    \* rating10 * 2.5
    (Rating10(hotel) * 5 * Scale) \div (2 * RatingUnit)

\* faulty variant: the lists are counted without set(), duplicates included
AmenityScore_List(hotel, uprefs) ==
    LET ha == Get(hotel, "amenities")
        pa == Get(uprefs, "preferences")
    IN  IF TruthyList(pa) /\ TruthyList(ha)
        THEN (Cardinality(ToSet(ha[1]) \cap ToSet(pa[1])) * 20 * Scale) \div Len(pa[1])
        ELSE 10 * Scale

AmenityScore(hotel, uprefs) ==
    LET ha == Get(hotel, "amenities")
        pa == Get(uprefs, "preferences")
        hotel_amenities == IF TruthyList(ha) THEN ToSet(ha[1]) ELSE {}
        pref_amenities  == IF TruthyList(pa) THEN ToSet(pa[1]) ELSE {}
    IN  IF pref_amenities # {} /\ hotel_amenities # {}
        THEN LET match_count  == Cardinality(hotel_amenities \cap pref_amenities)
                 total_wanted == Cardinality(pref_amenities)
             IN  (match_count * 20 * Scale) \div total_wanted
        ELSE 10 * Scale

ReviewCount(hotel) ==
    to_float(OrNum(OrNum(Get(hotel, "rating_count"), Get(hotel, "total_rating_count")),
                   Some(0)))

\* faulty variant: 50 reviews or fewer add nothing
ReviewScore_NoMinimum(hotel) ==
    LET review_count == ReviewCount(hotel)
    IN  IF review_count > 100 THEN 15 * Scale
        ELSE IF review_count > 50 THEN 10 * Scale
        ELSE 0

ReviewScore(hotel) ==
    LET review_count == ReviewCount(hotel)
    IN  IF review_count > 100 THEN 15 * Scale
        ELSE IF review_count > 50 THEN 10 * Scale
        ELSE 5 * Scale

\* The quality block is indented under the final `else` of the review-count
\* chain, so it runs only when review_count <= 50.
QualityScore(hotel) ==
    LET review_count == ReviewCount(hotel)
        rating10 == Rating10(hotel)
    IN  IF review_count > 100 THEN 0
        ELSE IF review_count > 50 THEN 0
        ELSE IF rating10 >= 9 * RatingUnit THEN 10 * Scale
        ELSE IF 2 * rating10 >= 17 * RatingUnit THEN 7 * Scale
        ELSE IF rating10 >= 8 * RatingUnit THEN 3 * Scale
        ELSE 0

Parts(hotel, uprefs) ==
    [price   |-> PriceScore(hotel, uprefs),
     rating  |-> RatingScore(hotel),
     amenity |-> AmenityScore(hotel, uprefs),
     review  |-> ReviewScore(hotel),
     quality |-> QualityScore(hotel)]

calculate_score(hotel, uprefs) ==
    LET p == Parts(hotel, uprefs)
    IN  p.price + p.rating + p.amenity + p.review + p.quality

(***************************************************************************)
(* sorted(scored_hotels, key=lambda h: h.get('score', 0.0), reverse=True)  *)
(* Python's sort is stable, and reverse=True keeps the original order of   *)
(* elements whose keys are equal.                                          *)
(***************************************************************************)
SortKey(hp, ref) == IF "score" \in DOMAIN hp[ref] THEN hp[ref]["score"] ELSE 0

\* faulty variant: x goes before the elements whose key equals its own
InsertDesc_Unstable(hp, s, x) ==
    LET pos == Cardinality({k \in DOMAIN s : SortKey(hp, s[k]) > SortKey(hp, x)})
    IN  SubSeq(s, 1, pos) \o <<x>> \o SubSeq(s, pos + 1, Len(s))

\* x goes after every element whose key is >= its own
InsertDesc(hp, s, x) ==
    LET pos == Cardinality({k \in DOMAIN s : SortKey(hp, s[k]) >= SortKey(hp, x)})
    IN  SubSeq(s, 1, pos) \o <<x>> \o SubSeq(s, pos + 1, Len(s))

RECURSIVE SortedFrom(_, _, _, _)
SortedFrom(hp, refs, k, acc) ==
    IF k > Len(refs) THEN acc
    ELSE SortedFrom(hp, refs, k + 1, InsertDesc(hp, acc, refs[k]))

\* faulty variant: the first element is left out
sorted_desc_DropFirst(hp, refs) == SortedFrom(hp, refs, 2, <<>>)

sorted_desc(hp, refs) == SortedFrom(hp, refs, 1, <<>>)

\* faulty variant: h = hotel, the same dict object
dict_copy_Alias(hp, ref) == [heap |-> hp, ref |-> ref]

\* h = dict(hotel): a new dict object with the same items
dict_copy(hp, ref) == [heap |-> Append(hp, hp[ref]), ref |-> Len(hp) + 1]

(***************************************************************************)
(* Inputs of rank_hotels                                                   *)
(***************************************************************************)
MaxHotels == 3

\* a dict with the key k when the optional o is a value, the empty dict otherwise
Fld(k, o) == IF o = None THEN <<>> ELSE (k :> o[1])

NoDict == <<>>

Offer(p, r, a, c) ==
    Fld("price", p) @@ Fld("rating", r) @@ Fld("amenities", a) @@ Fld("rating_count", c)

Prefs(b, a) == Fld("budget_max", b) @@ Fld("preferences", a)

\* prices and budgets, in currency units
PriceValues  == {None, Some(-4), Some(0), Some(3), Some(4), Some(10), Some(13)}
BudgetValues == {None, Some(-4), Some(0), Some(4), Some(12)}
\* ratings in 1/RatingUnit star: -1, 3.75, 4, 4.25, 4.5, 5, 6
RatingValues == {None, Some(-4), Some(15), Some(16), Some(17), Some(18), Some(20), Some(24)}
AmenityValues == {None, Some(<<>>), Some(<<"wifi">>), Some(<<"pool", "wifi">>), Some(<<"spa">>)}
PreferenceValues == {None, Some(<<>>), Some(<<"wifi">>), Some(<<"wifi", "pool">>),
                     Some(<<"wifi", "wifi">>)}
CountValues == {None, Some(50), Some(51), Some(100), Some(101)}

\* every canonical offer over the value sets
AllOffers ==
    {Offer(p, r, a, c) : p \in PriceValues, r \in RatingValues,
                          a \in AmenityValues, c \in CountValues}
AllPrefs == {Prefs(b, a) : b \in BudgetValues, a \in PreferenceValues}

\* the offers ranked against each other: the two offers of the worked example
\* (prices 100 and 90 against a budget of 120, in tens), offers that differ in
\* the rating alone, and offers whose scores tie
RankOffers ==
    {Offer(Some(10), Some(16), None, Some(150)),
     Offer(Some(9), Some(16), None, Some(10)),
     Offer(None, None, None, None),
     Offer(None, Some(-4), None, None),
     Offer(None, Some(17), None, None),
     Offer(None, Some(24), None, None),
     Offer(Some(13), Some(20), Some(<<"wifi">>), Some(101)),
     Offer(Some(4), None, Some(<<"spa">>), None)}
RankPrefs ==
    {Prefs(None, None), Prefs(Some(12), Some(<<>>)), Prefs(Some(4), Some(<<"wifi", "pool">>))}

Lists(S, n) == UNION {[1..k -> S] : k \in 0..n}

(***************************************************************************)
(* The conversation before its first turn: start_session has created the   *)
(* session and its preference row, every field unset.                      *)
(***************************************************************************)
PrefFields == {"location", "check_in", "check_out", "guests", "budget_max", "preferences"}
NoPrefs == [f \in PrefFields |-> None]
NoResponse == [status |-> 0, bot_response |-> None, intent |-> None, recommendations |-> <<>>]

TurnIdle ==
    /\ stored = NoPrefs
    /\ prefs = NoPrefs
    /\ intent_data = NoDict
    /\ intent = None
    /\ pc = "idle"
    /\ response = NoResponse
    /\ turn_messages = <<>>
    /\ saved_recs = <<>>
    /\ prefs0 = NoPrefs
    /\ search_calls = 0
    /\ rank_calls = 0
    /\ render_calls = 0
    /\ aborted_at = ""
    /\ llm_outcome = ""
    /\ search_failed = ""
    /\ found_n = 0

\* no call of search_hotels in progress
MakIdle ==
    /\ mpc = "idle"
    /\ location = <<>>
    /\ direct = FALSE
    /\ city_id = None
    /\ requests_made = <<>>
    /\ returned = None
    /\ raised = FALSE
    /\ city_data = NoDict
    /\ mapping_items = <<>>
    /\ chosen = None

\* no call of rank_hotels in progress
RankIdle ==
    /\ heap = <<>>
    /\ heap0 = <<>>
    /\ hotels = <<>>
    /\ user_prefs = NoDict
    /\ scored_hotels = <<>>
    /\ ranked = <<>>
    /\ contrib = <<>>
    /\ rpc = "idle"

(***************************************************************************)
(* rank_hotels as a state machine                                          *)
(***************************************************************************)
RankCall(hs, uprefs) ==
    /\ TurnIdle
    /\ MakIdle
    /\ heap = hs
    /\ heap0 = hs
    /\ hotels = [k \in DOMAIN hs |-> k]
    /\ user_prefs = uprefs
    /\ scored_hotels = <<>>
    /\ ranked = <<>>
    /\ contrib = <<>>
    /\ rpc = "loop"

\* one iteration of `for hotel in hotels`
ScoreHotel ==
    /\ rpc = "loop"
    /\ Len(scored_hotels) < Len(hotels)
    /\ LET hotel == hotels[Len(scored_hotels) + 1]
           c == dict_copy(heap, hotel)
           h == c.ref
           score == calculate_score(c.heap[h], user_prefs)
       IN  /\ heap' = [c.heap EXCEPT ![h] = SetItem(c.heap[h], "score", score)]
           /\ scored_hotels' = Append(scored_hotels, h)
           /\ contrib' = Append(contrib, Parts(c.heap[h], user_prefs))
    /\ UNCHANGED <<hotels, user_prefs, ranked, rpc, heap0>>
    /\ UNCHANGED <<turnVars, makVars>>

\* return sorted(...)
SortReturn ==
    /\ rpc = "loop"
    /\ Len(scored_hotels) = Len(hotels)
    /\ ranked' = sorted_desc(heap, scored_hotels)
    /\ rpc' = "done"
    /\ UNCHANGED <<heap, hotels, user_prefs, scored_hotels, heap0, contrib>>
    /\ UNCHANGED <<turnVars, makVars>>

NextRank == ScoreHotel \/ SortReturn

\* one offer, every combination of its fields and of the preferences
InitScore == \E hs \in Lists(AllOffers, 1), uprefs \in AllPrefs : RankCall(hs, uprefs)
SpecScore == InitScore /\ [][NextRank]_vars

\* lists of offers
InitRank == \E hs \in Lists(RankOffers, MaxHotels), uprefs \in RankPrefs : RankCall(hs, uprefs)
SpecRank == InitRank /\ [][NextRank]_vars

(***************************************************************************)
(* Properties of rank_hotels                                               *)
(***************************************************************************)
\* the k-th input offer and preference values, as the caller passed them
InputOffer(k) == heap0[hotels[k]]
RawRating(k) == IF "rating" \in DOMAIN InputOffer(k) THEN InputOffer(k)["rating"] ELSE 0
RawPrice(k) == IF "price" \in DOMAIN InputOffer(k) THEN InputOffer(k)["price"] ELSE 0
RawCount(k) == IF "rating_count" \in DOMAIN InputOffer(k) THEN InputOffer(k)["rating_count"] ELSE 0
OfferAmenities(k) ==
    IF "amenities" \in DOMAIN InputOffer(k)
    THEN {InputOffer(k)["amenities"][n] : n \in DOMAIN InputOffer(k)["amenities"]}
    ELSE {}
PreferredAmenities ==
    IF "preferences" \in DOMAIN user_prefs
    THEN {user_prefs["preferences"][n] : n \in DOMAIN user_prefs["preferences"]}
    ELSE {}
BudgetSet == "budget_max" \in DOMAIN user_prefs
Budget == IF BudgetSet THEN user_prefs["budget_max"] ELSE 0
\* clamp(2 * rating, 0, 10) in 1/RatingUnit
Clamped10(k) ==
    IF 2 * RawRating(k) < 0 THEN 0
    ELSE IF 2 * RawRating(k) > 10 * RatingUnit THEN 10 * RatingUnit
    ELSE 2 * RawRating(k)
\* the quality bonus of the weight table
TableBonus(k) ==
    IF Clamped10(k) >= 9 * RatingUnit THEN 10 * Scale
    ELSE IF 2 * Clamped10(k) >= 17 * RatingUnit THEN 7 * Scale
    ELSE IF Clamped10(k) >= 8 * RatingUnit THEN 3 * Scale
    ELSE 0
Scored == DOMAIN contrib
ScoreOf(ref) == heap[ref]["score"]

\* C1: the quality bonus is an unconditional fifth factor: every scored offer gets
\* +10 / +7 / +3 / +0 by its rating10 whatever its review count, so that an offer
\* with price 0 under a positive budget, rating 5, every preferred amenity and more
\* than 100 reviews scores 100.
C1_QualityBonusUnconditional ==
    \A k \in Scored :
        /\ contrib[k].quality = TableBonus(k)
        /\ ( /\ BudgetSet /\ Budget > 0 /\ RawPrice(k) = 0
             /\ RawRating(k) = 5 * RatingUnit
             /\ PreferredAmenities # {} /\ PreferredAmenities \subseteq OfferAmenities(k)
             /\ RawCount(k) > 100 )
           => ScoreOf(scored_hotels[k]) = 100 * Scale

\* C2: the returned list is in non-increasing score order, and two offers with
\* equal scores keep the relative order they had in the input list.
InputPos(ref) == CHOOSE k \in DOMAIN scored_hotels : scored_hotels[k] = ref
C2_SortedDescStable ==
    rpc = "done" =>
        \A a, b \in DOMAIN ranked :
            a < b =>
                /\ ScoreOf(ranked[a]) >= ScoreOf(ranked[b])
                /\ ScoreOf(ranked[a]) = ScoreOf(ranked[b])
                       => InputPos(ranked[a]) < InputPos(ranked[b])
C2_Witness ==
    /\ rpc = "done"
    /\ \E a, b, c \in DOMAIN ranked :
           /\ a < b /\ b < c
           /\ ScoreOf(ranked[a]) = ScoreOf(ranked[b])
           /\ ScoreOf(ranked[b]) > ScoreOf(ranked[c])
           /\ InputPos(ranked[c]) < InputPos(ranked[a])

\* C3: the returned list has the length of the input list and is a permutation
\* of the input offers: each input offer is returned exactly once; an empty
\* input gives an empty output.
WithoutScore(d) == [key \in DOMAIN d \ {"score"} |-> d[key]]
C3_Permutation ==
    rpc = "done" =>
        /\ Len(ranked) = Len(hotels)
        /\ \A a, b \in DOMAIN ranked : a # b => ranked[a] # ranked[b]
        /\ \A k \in DOMAIN hotels :
               \E a \in DOMAIN ranked :
                   /\ ranked[a] = scored_hotels[k]
                   /\ WithoutScore(heap[ranked[a]]) = InputOffer(k)
        /\ (hotels = <<>> => ranked = <<>>)
C3_Witness ==
    /\ rpc = "done"
    /\ Len(hotels) = MaxHotels
    /\ \E a \in DOMAIN ranked : InputPos(ranked[a]) # a

\* C4 as stated: +15 when budget_max is unset; 30 * (1 - price/budget_max) when
\* budget_max > 0 and price <= budget_max (so 0 at price = budget_max); -5 whenever
\* price > budget_max; a missing price counts as 0.
C4_PriceFactorAsStated ==
    \A k \in Scored :
        /\ ~BudgetSet => contrib[k].price = 15 * Scale
        /\ (BudgetSet /\ Budget > 0 /\ RawPrice(k) <= Budget)
               => contrib[k].price * Budget = 30 * Scale * (Budget - RawPrice(k))
        /\ (BudgetSet /\ RawPrice(k) > Budget) => contrib[k].price = -(5 * Scale)

\* C4 amended: +15 when budget_max is unset or is not positive; when
\* budget_max > 0, 30 * (1 - price/budget_max) for price <= budget_max (so 0 at
\* price = budget_max) and -5 for price > budget_max; a missing price counts as 0.
C4_PriceFactor ==
    \A k \in Scored :
        /\ (~BudgetSet \/ Budget <= 0) => contrib[k].price = 15 * Scale
        /\ (BudgetSet /\ Budget > 0 /\ RawPrice(k) <= Budget)
               => contrib[k].price * Budget = 30 * Scale * (Budget - RawPrice(k))
        /\ (BudgetSet /\ Budget > 0 /\ RawPrice(k) = Budget) => contrib[k].price = 0
        /\ (BudgetSet /\ Budget > 0 /\ RawPrice(k) > Budget) => contrib[k].price = -(5 * Scale)
C4_Witness ==
    /\ Scored # {}
    /\ BudgetSet /\ Budget = 0
    /\ RawPrice(1) > 0
    /\ contrib[1].price = 15 * Scale

\* C5: the rating factor is rating10 * 2.5 with rating10 = clamp(2 * rating, 0, 10)
\* (a missing rating counts as 0); it is non-decreasing in the raw rating, and
\* never above 25, also for a raw rating above 5.
C5_RatingMonotoneCapped ==
    \A j, k \in Scored :
        /\ 2 * RatingUnit * contrib[k].rating = 5 * Scale * Clamped10(k)
        /\ contrib[k].rating <= 25 * Scale
        /\ RawRating(j) <= RawRating(k) => contrib[j].rating <= contrib[k].rating
C5_Witness ==
    \E j, k \in Scored :
        /\ RawRating(j) > 5 * RatingUnit
        /\ contrib[j].rating = 25 * Scale
        /\ RawRating(k) > 0 /\ RawRating(k) < 5 * RatingUnit
        /\ contrib[k].rating < contrib[j].rating

\* C6: the amenity factor is 20 * |offer amenities /\ preferred| / |preferred| when
\* both sets are non-empty (0 with no match, 20 with every preferred amenity
\* present) and a flat +10 when either set is empty or absent.
C6_AmenityFactor ==
    \A k \in Scored :
        IF OfferAmenities(k) # {} /\ PreferredAmenities # {}
        THEN /\ contrib[k].amenity * Cardinality(PreferredAmenities)
                    = 20 * Scale * Cardinality(OfferAmenities(k) \cap PreferredAmenities)
             /\ OfferAmenities(k) \cap PreferredAmenities = {} => contrib[k].amenity = 0
             /\ PreferredAmenities \subseteq OfferAmenities(k) => contrib[k].amenity = 20 * Scale
        ELSE contrib[k].amenity = 10 * Scale
C6_Witness ==
    /\ Scored # {}
    /\ Cardinality(PreferredAmenities) = 2
    /\ Cardinality(OfferAmenities(1) \cap PreferredAmenities) = 1
    /\ contrib[1].amenity = 10 * Scale

\* C7: rank_hotels never mutates its input: the list passed in and every input
\* record stay as they were, and each returned record is a new record equal to
\* its input offer plus one added score field.
C7_InputNotMutated ==
    /\ hotels = [k \in DOMAIN heap0 |-> k]
    /\ \A ref \in DOMAIN heap0 : heap[ref] = heap0[ref]
    /\ rpc = "done" =>
           \A a \in DOMAIN ranked :
               /\ ranked[a] \notin DOMAIN heap0
               /\ DOMAIN heap[ranked[a]] = DOMAIN InputOffer(InputPos(ranked[a])) \cup {"score"}
               /\ \A key \in DOMAIN InputOffer(InputPos(ranked[a])) :
                      heap[ranked[a]][key] = InputOffer(InputPos(ranked[a]))[key]
C7_Witness ==
    /\ rpc = "done"
    /\ Len(ranked) = MaxHotels
    /\ \E a \in DOMAIN ranked : Cardinality(DOMAIN heap[ranked[a]]) = 4

(***************************************************************************)
(* rank_hotels as one call: the list of scored copies, sorted              *)
(***************************************************************************)
rank_hotels(hs, uprefs) ==
    LET n == Len(hs)
        hp == hs \o [k \in 1..n |-> SetItem(hs[k], "score", calculate_score(hs[k], uprefs))]
        out == sorted_desc(hp, [k \in 1..n |-> n + k])
    IN  [k \in 1..n |-> hp[out[k]]]

(***************************************************************************)
(* ChatbotAIEngine.parse_user_intent                                       *)
(* A JSON number is [num |-> n], a JSON string met where a number is       *)
(* expected is [str |-> s].  The value of the key "intent" is an Optional: *)
(* None there is JSON null.                                                *)
(***************************************************************************)
Num(n) == [num |-> n]
Str(t) == [str |-> t]
IsNum(v) == DOMAIN v = {"num"}

ErrorRecord(reason) == ("intent" :> Some("help")) @@ ("error" :> reason)

\* faulty variant: the choices are not checked before choices[0] is read, so a
\* response without choices ends in the generic handler
parse_user_intent_NoChoicesCheck(outcome) ==
    CASE outcome.kind = "no_key"        -> ErrorRecord("API key not configured")
      [] outcome.kind = "timeout"       -> ErrorRecord("Timeout")
      [] outcome.kind = "unreachable"   -> ErrorRecord("str(e)")
      [] outcome.kind = "status"        -> ErrorRecord("API Error") @@ ("status" :> 500)
      [] outcome.kind = "body_not_json" -> ErrorRecord("str(e)")
      [] outcome.kind = "no_choices"    -> ErrorRecord("str(e)")
      [] outcome.kind = "empty_choices" -> ErrorRecord("str(e)")
      [] outcome.kind = "empty_content" -> ErrorRecord("Parse Error") @@ ("raw" :> "")
      [] outcome.kind = "bad_json"      -> ErrorRecord("Parse Error") @@ ("raw" :> "response_text")
      [] outcome.kind = "json"          -> outcome.parsed

\* what the completion service does, and what parse_user_intent returns for it:
\* lines 54-56 no key; 101-103 requests.Timeout; 104-106 any other exception
\* (the service cannot be reached, resp.json() fails), with the exception's
\* text as the reason; 77-79 a status other than 200; 81-85 choices missing or
\* empty; 94-99 json.loads of the content fails (empty or malformed), or gives
\* the parsed value, returned as it is
parse_user_intent(outcome) ==
    CASE outcome.kind = "no_key"        -> ErrorRecord("API key not configured")
      [] outcome.kind = "timeout"       -> ErrorRecord("Timeout")
      [] outcome.kind = "unreachable"   -> ErrorRecord("str(e)")
      [] outcome.kind = "status"        -> ErrorRecord("API Error") @@ ("status" :> 500)
      [] outcome.kind = "body_not_json" -> ErrorRecord("str(e)")
      [] outcome.kind = "no_choices"    -> ErrorRecord("No choices in response")
      [] outcome.kind = "empty_choices" -> ErrorRecord("No choices in response")
      [] outcome.kind = "empty_content" -> ErrorRecord("Parse Error") @@ ("raw" :> "")
      [] outcome.kind = "bad_json"      -> ErrorRecord("Parse Error") @@ ("raw" :> "response_text")
      [] outcome.kind = "json"          -> outcome.parsed

IntentValues == {Some("search"), Some("refine"), Some("help"), Some("info"), Some("book"), None}
LocationValues == {None, Some(""), Some("Paris"), Some("Rome")}
CheckInValues == {None, Some("2026-07-01")}
CheckOutValues == {None, Some("2026-07-05")}
GuestValues == {None, Some(Num(0)), Some(Num(2)), Some(Str("two"))}
BudgetInputs == {None, Some(Num(0)), Some(Num(12)), Some(Str("cheap"))}
PreferenceInputs == {None, Some(<<>>), Some(<<"wifi">>)}

IntentRecord(i, l, ci, co, g, b, p) ==
    i @@ Fld("location", l) @@ Fld("check_in", ci) @@ Fld("check_out", co)
      @@ Fld("guests", g) @@ Fld("budget_max", b) @@ Fld("preferences", p)

\* the JSON objects the model answers with: every intent value (and none) with a
\* location and dates or without, and a search or help intent with every
\* combination of the fields
IntentRecords ==
    {IntentRecord(i, l, d[1], d[2], None, None, None) :
        i \in {("intent" :> v) : v \in IntentValues} \cup {NoDict},
        l \in {None, Some("Paris")},
        d \in {<<None, None>>, <<Some("2026-07-01"), Some("2026-07-05")>>}}
    \cup
    {IntentRecord(("intent" :> i), l, ci, co, g, b, p) :
        i \in {Some("search"), Some("help")}, l \in LocationValues,
        ci \in CheckInValues, co \in CheckOutValues,
        g \in GuestValues, b \in BudgetInputs, p \in PreferenceInputs}

FailureKinds ==
    {"no_key", "timeout", "unreachable", "status", "body_not_json",
     "no_choices", "empty_choices", "empty_content", "bad_json"}
ErrorOutcomes ==
    {[kind |-> k] : k \in FailureKinds}
ObjectOutcomes == {[kind |-> "json", parsed |-> d] : d \in IntentRecords}

(***************************************************************************)
(* send_message, lines 80-100: the merge of intent_data into prefs         *)
(***************************************************************************)
TruthyStr(o) == o # None /\ o[1] # ""
TruthyJson(o) == o # None /\ (IF IsNum(o[1]) THEN o[1].num # 0 ELSE o[1].str # "")

\* int(v) / float(v): None when it raises ValueError or TypeError
ToNumber(v) ==
    IF IsNum(v) THEN Some(v.num)
    ELSE IF v.str = "2" THEN Some(2)
    ELSE IF v.str = "12" THEN Some(12)
    ELSE None

merge_location(p, d) ==
    IF TruthyStr(Get(d, "location")) THEN [p EXCEPT !["location"] = Some(d["location"])] ELSE p
merge_check_in(p, d) ==
    IF TruthyStr(Get(d, "check_in")) THEN [p EXCEPT !["check_in"] = Some(d["check_in"])] ELSE p
merge_check_out(p, d) ==
    IF TruthyStr(Get(d, "check_out")) THEN [p EXCEPT !["check_out"] = Some(d["check_out"])] ELSE p
merge_guests(p, d) ==
    IF TruthyJson(Get(d, "guests"))
    THEN IF ToNumber(d["guests"]) # None
         THEN [p EXCEPT !["guests"] = ToNumber(d["guests"])]
         ELSE p                                         \* except: pass
    ELSE p
\* faulty variant: the budget is assigned whether or not the record carries one
merge_budget_max_ResetWhenAbsent(p, d) ==
    IF Get(d, "budget_max") # None /\ ToNumber(d["budget_max"]) # None
    THEN [p EXCEPT !["budget_max"] = ToNumber(d["budget_max"])]
    ELSE [p EXCEPT !["budget_max"] = None]

merge_budget_max(p, d) ==
    IF Get(d, "budget_max") # None
    THEN IF ToNumber(d["budget_max"]) # None
         THEN [p EXCEPT !["budget_max"] = ToNumber(d["budget_max"])]
         ELSE [p EXCEPT !["budget_max"] = None]         \* except: prefs.budget_max = None
    ELSE p
merge_preferences(p, d) ==
    IF TruthyList(Get(d, "preferences"))
    THEN [p EXCEPT !["preferences"] = Some(d["preferences"])]
    ELSE p

merge_intent(p, d) ==
    merge_preferences(merge_budget_max(merge_guests(merge_check_out(merge_check_in(
        merge_location(p, d), d), d), d), d), d)

(***************************************************************************)
(* ChatbotAIEngine.generate_response                                       *)
(***************************************************************************)
Reply(kind, count, lines) == [kind |-> kind, count |-> count, lines |-> lines]

generate_response(i, recommendations) ==
    IF i = Some("search")
    THEN IF recommendations = <<>>
         THEN Reply("no_results", 0, <<>>)
         ELSE Reply("found", Len(recommendations),
                    [k \in 1..Min2(5, Len(recommendations)) |-> recommendations[k]["id"]])
    ELSE IF i = Some("help") THEN Reply("help", 0, <<>>)
    ELSE IF i \in {Some("refine"), Some("re ne"), Some("rene")} THEN Reply("refine", 0, <<>>)
    ELSE Reply("generic", 0, <<>>)

SearchErrorReply == Reply("search_error", 0, <<>>)

(***************************************************************************)
(* send_message                                                            *)
(***************************************************************************)
MaxResults == 11

\* what the search provider returns for n results: offers with rising price and
\* ratings that do not follow the price
ProviderOffer(k) ==
    ("id" :> k) @@ ("price" :> k) @@ ("rating" :> 4 * (2 + (k % 3)) + (k % 2))
        @@ ("rating_count" :> 40 * (k % 4))
ProviderResult(n) == [k \in 1..n |-> ProviderOffer(k)]

Message(sender, text, i) == [sender |-> sender, text |-> text, intent |-> i]

\* faulty variant: the check-out date is not asked for
SearchGate_NoCheckOut(i, p) ==
    /\ i = Some("search")
    /\ TruthyStr(p["location"])
    /\ TruthyStr(p["check_in"])

\* line 106
SearchGate(i, p) ==
    /\ i = Some("search")
    /\ TruthyStr(p["location"])
    /\ TruthyStr(p["check_in"])
    /\ TruthyStr(p["check_out"])

\* lines 115-118
prefs_dict(p) ==
    Fld("budget_max", IF TruthyNum(p["budget_max"]) THEN p["budget_max"] ELSE None)
        @@ ("preferences" :> (IF TruthyList(p["preferences"]) THEN p["preferences"][1] ELSE <<>>))

\* lines 149-162
payload_recs(recommendations) ==
    [k \in DOMAIN recommendations |->
        [id |-> recommendations[k]["id"], score |-> recommendations[k]["score"]]]

\* faulty variant: the slice stops one element early
Top_OneShort(s, n) == SubSeq(s, 1, Min2(n, Len(s)) - 1)

\* s[:n]
Top(s, n) == SubSeq(s, 1, Min2(n, Len(s)))

\* faulty variant: the reply is rendered even when an error text is set
Finish_AlwaysRender(bot_response, recommendations) ==
    LET text == generate_response(intent, recommendations)
    IN  /\ render_calls' = render_calls + 1
        /\ turn_messages' = Append(turn_messages, Message("bot", text, intent))
        /\ response' = [status |-> 200, bot_response |-> Some(text), intent |-> intent,
                        recommendations |-> payload_recs(recommendations)]
        /\ pc' = "idle"

\* lines 142-164: render unless an error text is set, save the bot message, respond
Finish(bot_response, recommendations) ==
    LET text == IF bot_response = None THEN generate_response(intent, recommendations)
                ELSE bot_response[1]
    IN  /\ render_calls' = IF bot_response = None THEN render_calls + 1 ELSE render_calls
        /\ turn_messages' = Append(turn_messages, Message("bot", text, intent))
        /\ response' = [status |-> 200, bot_response |-> Some(text), intent |-> intent,
                        recommendations |-> payload_recs(recommendations)]
        /\ pc' = "idle"

\* lines 62-65: an empty message is refused
SendMessage_Empty ==
    /\ pc = "idle"
    /\ llm_outcome' = ""
    /\ search_failed' = ""
    /\ found_n' = 0
    /\ response' = [NoResponse EXCEPT !.status = 400]
    /\ UNCHANGED <<stored, prefs, intent_data, intent, pc, turn_messages, saved_recs,
                   prefs0, search_calls, rank_calls, render_calls, aborted_at>>
    /\ UNCHANGED <<rankVars, makVars>>

\* lines 67-70: no session with that id
SendMessage_NoSession ==
    /\ pc = "idle"
    /\ llm_outcome' = ""
    /\ search_failed' = ""
    /\ found_n' = 0
    /\ response' = [NoResponse EXCEPT !.status = 404]
    /\ UNCHANGED <<stored, prefs, intent_data, intent, pc, turn_messages, saved_recs,
                   prefs0, search_calls, rank_calls, render_calls, aborted_at>>
    /\ UNCHANGED <<rankVars, makVars>>

\* lines 72-77: the user message is saved and parse_user_intent is called
SendMessage_Begin ==
    /\ pc = "idle"
    /\ llm_outcome' = ""
    /\ search_failed' = ""
    /\ found_n' = 0
    /\ pc' = "parse"
    /\ turn_messages' = <<Message("user", "user_text", None)>>
    /\ saved_recs' = <<>>
    /\ response' = NoResponse
    /\ prefs' = NoPrefs
    /\ intent' = None
    /\ intent_data' = NoDict
    /\ prefs0' = stored
    /\ search_calls' = 0
    /\ rank_calls' = 0
    /\ render_calls' = 0
    /\ aborted_at' = ""
    /\ UNCHANGED stored
    /\ UNCHANGED <<rankVars, makVars>>

\* lines 77-78: parse_user_intent returns a dict
ParseReturn ==
    /\ pc = "parse"
    /\ \E outcome \in ErrorOutcomes \cup ObjectOutcomes :
           /\ llm_outcome' = outcome.kind
           /\ intent_data' = parse_user_intent(outcome)
           /\ intent' = IF "intent" \in DOMAIN intent_data' THEN intent_data'["intent"]
                        ELSE Some("help")
    /\ pc' = "merge"
    /\ UNCHANGED <<search_failed, found_n>>
    /\ UNCHANGED <<stored, prefs, response, turn_messages, saved_recs,
                   prefs0, search_calls, rank_calls, render_calls, aborted_at>>
    /\ UNCHANGED <<rankVars, makVars>>

\* lines 77-78, 165-167: the model answered with JSON that is not an object;
\* intent_data.get raises and the outer handler answers 400
ParseReturnNonObject ==
    /\ pc = "parse"
    /\ llm_outcome' = "json_non_object"
    /\ UNCHANGED <<search_failed, found_n>>
    /\ response' = [NoResponse EXCEPT !.status = 400]
    /\ pc' = "idle"
    /\ UNCHANGED <<stored, prefs, intent_data, intent, turn_messages, saved_recs,
                   prefs0, search_calls, rank_calls, render_calls, aborted_at>>
    /\ UNCHANGED <<rankVars, makVars>>

\* lines 80-100: prefs = session.preferences, the merge, prefs.save()
MergePreferences ==
    /\ pc = "merge"
    /\ UNCHANGED <<llm_outcome, search_failed, found_n>>
    /\ prefs' = merge_intent(stored, intent_data)
    /\ stored' = prefs'
    /\ intent_data' = NoDict
    /\ pc' = "gate"
    /\ UNCHANGED <<intent, response, turn_messages, saved_recs,
                   prefs0, search_calls, rank_calls, render_calls, aborted_at>>
    /\ UNCHANGED <<rankVars, makVars>>

\* lines 106-113: the search provider is called
SearchCall ==
    /\ pc = "gate"
    /\ UNCHANGED <<llm_outcome, search_failed, found_n>>
    /\ SearchGate(intent, prefs)
    /\ search_calls' = search_calls + 1
    /\ pc' = "search"
    /\ UNCHANGED <<stored, prefs, intent_data, intent, response, turn_messages, saved_recs,
                   prefs0, rank_calls, render_calls, aborted_at>>
    /\ UNCHANGED <<rankVars, makVars>>

\* lines 106, 142-164: no search
SkipSearch ==
    /\ pc = "gate"
    /\ UNCHANGED <<llm_outcome, search_failed, found_n>>
    /\ ~SearchGate(intent, prefs)
    /\ Finish(None, <<>>)
    /\ UNCHANGED <<stored, prefs, intent_data, intent, saved_recs,
                   prefs0, search_calls, rank_calls, aborted_at>>
    /\ UNCHANGED <<rankVars, makVars>>

\* lines 114-137, 142-164: the provider returns n offers
SearchReturn ==
    /\ pc = "search"
    /\ \E n \in 0..MaxResults :
           LET found == ProviderResult(n)
               sorted == IF n > 0 THEN rank_hotels(found, prefs_dict(prefs)) ELSE <<>>
           IN  /\ rank_calls' = IF n > 0 THEN rank_calls + 1 ELSE rank_calls
               /\ found_n' = n
               /\ saved_recs' = Top(sorted, 10)
               /\ Finish(None, Top(sorted, 5))
    /\ UNCHANGED <<llm_outcome, search_failed>>
    /\ UNCHANGED <<stored, prefs, intent_data, intent, prefs0, search_calls, aborted_at>>
    /\ UNCHANGED <<rankVars, makVars>>

\* lines 108-113, 138-164: the provider call raises
SearchRaise ==
    /\ pc = "search"
    /\ search_failed' = "search"
    /\ UNCHANGED <<llm_outcome, found_n>>
    /\ Finish(Some(SearchErrorReply), <<>>)
    /\ UNCHANGED <<stored, prefs, intent_data, intent, saved_recs,
                   prefs0, search_calls, rank_calls, aborted_at>>
    /\ UNCHANGED <<rankVars, makVars>>

\* lines 119, 138-164: the provider returns n offers and rank_hotels raises
RankRaise ==
    /\ pc = "search"
    /\ \E n \in 1..MaxResults : found_n' = n
    /\ rank_calls' = rank_calls + 1
    /\ search_failed' = "rank"
    /\ Finish(Some(SearchErrorReply), <<>>)
    /\ UNCHANGED llm_outcome
    /\ UNCHANGED <<stored, prefs, intent_data, intent, saved_recs,
                   prefs0, search_calls, aborted_at>>
    /\ UNCHANGED <<rankVars, makVars>>

\* lines 122-140: saving a recommendation raises after j rows were created
PersistRaise ==
    /\ pc = "search"
    /\ search_failed' = "persist"
    /\ UNCHANGED llm_outcome
    /\ \E n \in 1..MaxResults :
           LET sorted == rank_hotels(ProviderResult(n), prefs_dict(prefs))
           IN  \E j \in 0..(Len(Top(sorted, 10)) - 1) :
                   /\ found_n' = n
                   /\ saved_recs' = Top(sorted, j)
                   /\ rank_calls' = rank_calls + 1
                   /\ Finish(Some(SearchErrorReply), <<>>)
    /\ UNCHANGED <<stored, prefs, intent_data, intent, prefs0, search_calls, aborted_at>>
    /\ UNCHANGED <<rankVars, makVars>>

\* the caller gives up while an external call is in progress: the request ends
\* where it is and nothing more of the turn runs
Abort ==
    /\ pc \in {"parse", "search"}
    /\ UNCHANGED <<llm_outcome, search_failed, found_n>>
    /\ aborted_at' = pc
    /\ pc' = "idle"
    /\ UNCHANGED <<stored, prefs, intent_data, intent, response, turn_messages, saved_recs,
                   prefs0, search_calls, rank_calls, render_calls>>
    /\ UNCHANGED <<rankVars, makVars>>

Init == TurnIdle /\ RankIdle /\ MakIdle

Next ==
    \/ SendMessage_Empty
    \/ SendMessage_NoSession
    \/ SendMessage_Begin
    \/ ParseReturn
    \/ ParseReturnNonObject
    \/ MergePreferences
    \/ SearchCall
    \/ SkipSearch
    \/ SearchReturn
    \/ SearchRaise
    \/ RankRaise
    \/ PersistRaise
    \/ Abort

Spec == Init /\ [][Next]_vars

(***************************************************************************)
(* Properties of send_message                                              *)
(***************************************************************************)
\* C8 (its conclusion): over any sequence of turns, a preference field that
\* holds a value is never reset to null.
C8_NeverResetToNull ==
    [][\A f \in PrefFields : stored[f] # None => stored'[f] # None]_vars

\* C9: a turn that is aborted while the search provider call is in progress
\* leaves the stored Preferences as they were before the turn.
C9_AbortLeavesPreferences ==
    aborted_at = "search" => stored = prefs0

\* C10: the search provider is invoked in a turn if and only if the turn's intent
\* is search and the merged Preferences have a location, a check_in and a
\* check_out; in every other turn there is no search and no ranking, and the
\* reply is rendered from the intent alone, with an empty offer list.
HasValue(o) == o # None /\ o[1] # ""
SearchWanted ==
    /\ intent = Some("search")
    /\ HasValue(stored["location"])
    /\ HasValue(stored["check_in"])
    /\ HasValue(stored["check_out"])
Answered == pc = "idle" /\ response.status = 200
SearchFailed == pc = "idle" /\ search_failed # ""

\* C11: when a step of the search branch raises (the provider search, the
\* ranking, or the saving of a recommendation), the turn still ends with a
\* normal response: the reply is the locally made error message, the Response
\* Generator was not called, no offer is returned, the bot reply is saved, and
\* the next turn can begin.
C11_SearchFailureAnswered ==
    SearchFailed =>
        /\ response.status = 200
        /\ response.bot_response = Some(SearchErrorReply)
        /\ render_calls = 0
        /\ response.recommendations = <<>>
        /\ turn_messages[Len(turn_messages)] = Message("bot", SearchErrorReply, intent)
        /\ ENABLED SendMessage_Begin

C11_Witness ==
    /\ SearchFailed
    /\ search_failed = "persist"
    /\ Len(saved_recs) >= 1
    /\ response.status = 200

ExtractorFailed == llm_outcome \in FailureKinds

\* C12: when the Intent Extractor returns an error record, no search is made,
\* the stored Preferences stay as they were before the turn, and the turn ends
\* with a normal response carrying the help reply, intent help and no offers.
C12_ExtractorErrorGivesHelp ==
    ExtractorFailed =>
        /\ search_calls = 0
        /\ stored = prefs0
        /\ (pc = "idle" /\ aborted_at = "") =>
              /\ response.status = 200
              /\ response.bot_response = Some(generate_response(Some("help"), <<>>))
              /\ response.bot_response[1].kind = "help"
              /\ response.intent = Some("help")
              /\ response.recommendations = <<>>

C12_Witness ==
    /\ ExtractorFailed
    /\ Answered
    /\ SearchGate(Some("search"), stored)
    /\ TruthyNum(stored["budget_max"])

\* the reason the specification gives for each failure of the completion service
StatedReason(kind) ==
    CASE kind = "no_key" -> "not_configured"
      [] kind \in {"timeout", "unreachable", "body_not_json"} -> "timeout"
      [] kind = "status" -> "api_error"
      [] kind \in {"no_choices", "empty_choices"} -> "no_choices"
      [] kind \in {"empty_content", "bad_json"} -> "parse_error"

DiagnosticText(kind) ==
    CASE kind = "no_key" -> "API key not configured"
      [] kind = "timeout" -> "Timeout"
      [] kind \in {"unreachable", "body_not_json"} -> "str(e)"
      [] kind = "status" -> "API Error"
      [] kind \in {"no_choices", "empty_choices"} -> "No choices in response"
      [] kind \in {"empty_content", "bad_json"} -> "Parse Error"

IntentEnumeration == {Some("search"), Some("refine"), Some("help"), Some("info")}

\* C14: the intent carried through a turn is always one of search, refine, help
\* and info; an unknown string, a null or a missing intent is treated as help
\* for the search gate, the reply and the response payload.
C14_IntentInEnumeration ==
    Answered =>
        /\ intent \in IntentEnumeration
        /\ response.intent \in IntentEnumeration
        /\ turn_messages[Len(turn_messages)].intent \in IntentEnumeration


(***************************************************************************)
(* What a search turn saves, returns and says                              *)
(***************************************************************************)
\* the turn searched, and no step of the search branch raised
SearchSucceeded == Answered /\ search_calls = 1 /\ search_failed = ""

\* the score of the k-th offer of the provider's result under the turn's preferences
OfferScore(k) == calculate_score(ProviderOffer(k), prefs_dict(prefs))

\* x comes before y in rank order: higher score first, provider order among equals
RanksBefore(x, y) ==
    \/ x["score"] > y["score"]
    \/ x["score"] = y["score"] /\ x["id"] < y["id"]

\* C15: a search turn whose provider result has n offers saves exactly
\* min(n, 10) of them and returns exactly min(n, 5); both are the
\* highest-scored offers in rank order, and the returned list is a prefix of
\* the saved one.
C15_TopTenSavedTopFiveReturned ==
    SearchSucceeded =>
        LET n == found_n
            recs == response.recommendations
            savedIds == {saved_recs[k]["id"] : k \in DOMAIN saved_recs}
        IN  /\ Len(saved_recs) = Min2(n, 10)
            /\ Len(recs) = Min2(n, 5)
            /\ \A k \in DOMAIN saved_recs :
                  /\ saved_recs[k]["id"] \in 1..n
                  /\ saved_recs[k]["score"] = OfferScore(saved_recs[k]["id"])
            /\ \A j, k \in DOMAIN saved_recs :
                  j < k => RanksBefore(saved_recs[j], saved_recs[k])
            /\ \A i \in (1..n) \ savedIds : \A k \in DOMAIN saved_recs :
                  RanksBefore(saved_recs[k], ("id" :> i) @@ ("score" :> OfferScore(i)))
            /\ \A k \in DOMAIN recs :
                  /\ recs[k].id = saved_recs[k]["id"]
                  /\ recs[k].score = saved_recs[k]["score"]

C15_Witness ==
    /\ SearchSucceeded
    /\ found_n > 10
    /\ Len(saved_recs) = 10
    /\ Len(response.recommendations) = 5
    /\ saved_recs[1]["id"] # 1

\* C16: the reply of a search turn with n >= 1 offers lists at most 5 of them
\* and states n, the total number found, as the count, also when n > 5.
C16_ReplyStatesTotalFound ==
    (SearchSucceeded /\ found_n >= 1) =>
        /\ response.bot_response[1].kind = "found"
        /\ Len(response.bot_response[1].lines) <= 5
        /\ response.bot_response[1].count = found_n


(***************************************************************************)
(* MakcorpsClient (makcorps_client.py)                                     *)
(*                                                                         *)
(* A JSON value is a record with one field that names its type: num, str,  *)
(* chars (a string given by its characters, where the code looks inside    *)
(* it), list, dict, bool, null; null is also Python's None.  A float       *)
(* parsed from text is held as the text it was parsed from.  What a call   *)
(* gives is Ok(value) or Raised.                                           *)
(***************************************************************************)
JNull == [null |-> TRUE]
JBool(b) == [bool |-> b]
Chars(cs) == [chars |-> cs]
JList(items) == [list |-> items]
JDict(d) == [dict |-> d]
Float(cs) == [float |-> cs]

IsList(v) == DOMAIN v = {"list"}
IsDict(v) == DOMAIN v = {"dict"}
IsText(v) == DOMAIN v = {"str"} \/ DOMAIN v = {"chars"}

\* Python truthiness
Truthy(v) ==
    CASE DOMAIN v = {"null"}  -> FALSE
      [] DOMAIN v = {"bool"}  -> v.bool
      [] DOMAIN v = {"num"}   -> v.num # 0
      [] DOMAIN v = {"str"}   -> v.str # ""
      [] DOMAIN v = {"chars"} -> v.chars # <<>>
      [] DOMAIN v = {"list"}  -> v.list # <<>>
      [] DOMAIN v = {"dict"}  -> DOMAIN v.dict # {}
      [] OTHER                -> TRUE

\* a or b
Or(a, b) == IF Truthy(a) THEN a ELSE b

\* item.get(k) of a dict
JGet(item, k) == IF k \in DOMAIN item.dict THEN item.dict[k] ELSE JNull

Ok(v) == [raised |-> FALSE, value |-> v]
Raised == [raised |-> TRUE]

DigitChars == {"0", "1", "2", "3", "4", "5", "6", "7", "8", "9"}
DigitValue(c) ==
    CASE c = "0" -> 0 [] c = "1" -> 1 [] c = "2" -> 2 [] c = "3" -> 3 [] c = "4" -> 4
      [] c = "5" -> 5 [] c = "6" -> 6 [] c = "7" -> 7 [] c = "8" -> 8 [] c = "9" -> 9

RECURSIVE DigitsValue(_)
DigitsValue(cs) ==
    IF cs = <<>> THEN 0
    ELSE 10 * DigitsValue(SubSeq(cs, 1, Len(cs) - 1)) + DigitValue(cs[Len(cs)])

\* int(location) of a string of decimal digits, None where int() raises ValueError
int(cs) ==
    IF cs # <<>> /\ \A k \in DOMAIN cs : cs[k] \in DigitChars
    THEN Some(DigitsValue(cs)) ELSE None

RECURSIVE NatChars(_)
NatChars(n) ==
    LET d == <<"0", "1", "2", "3", "4", "5", "6", "7", "8", "9">>[(n % 10) + 1]
    IN  IF n < 10 THEN <<d>> ELSE Append(NatChars(n \div 10), d)

\* str(price) of a price given as text or as an integer
str(v) ==
    IF DOMAIN v = {"chars"} THEN v.chars
    ELSE IF v.num < 0 THEN <<"-">> \o NatChars(0 - v.num) ELSE NatChars(v.num)

\* re.sub(r"[^0-9,\.]", "", p).replace(',', '.')
IsPriceChar(c) == c \in DigitChars \cup {",", "."}
p_clean(p) ==
    LET kept == SelectSeq(p, IsPriceChar)
    IN  [k \in DOMAIN kept |-> IF kept[k] = "," THEN "." ELSE kept[k]]

\* float(p_clean) of a text of digits and dots: None where float() raises
IsDot(c) == c = "."
IsDigit(c) == c \in DigitChars
float(cs) ==
    IF Len(SelectSeq(cs, IsDigit)) >= 1 /\ Len(SelectSeq(cs, IsDot)) <= 1
    THEN Float(cs) ELSE JNull


\* lines 22-49: what the provider does with a request, and what _get gives:
\* None for a status other than 200 and for a requests.RequestException, the
\* decoded body for a JSON body.  For a body that is not JSON, resp.json()
\* raises; whether that exception is a RequestException (caught, None) or a
\* plain ValueError (not caught) depends on the installed requests library.
_get(outcome) ==
    CASE outcome.kind = "status"    -> Ok(JNull)
      [] outcome.kind = "network"   -> Ok(JNull)
      [] outcome.kind = "malformed" -> IF outcome.caught THEN Ok(JNull) ELSE Raised
      [] outcome.kind = "json"      -> Ok(outcome.body)

Failures ==
    {[kind |-> "status"], [kind |-> "network"]}
        \cup {[kind |-> "malformed", caught |-> b] : b \in BOOLEAN}
Answers(bodies) == Failures \cup {[kind |-> "json", body |-> b] : b \in bodies}

\* lines 51-56
mapping(data) ==
    IF ~Truthy(data) THEN <<>>
    ELSE IF IsList(data) THEN data.list ELSE <<>>

\* lines 65, 68, 70
IdOf(it) == Or(JGet(it, "value"), JGet(it, "document_id"))

\* line 64
IsGeo(it) == JGet(it, "type") = Str("GEO") \/ JGet(it, "data_type") = Str("LOCATION")
\* line 67
IsHotel(it) == JGet(it, "type") = Str("HOTEL")

\* for it in items: if <test>(it): return ...   `it.get` raises AttributeError
\* on the first item that is not a dict, if the loop gets that far
\* (hit: the positions of the dicts that pass the test)
FirstOf(items, hit) ==
    LET bad == {k \in DOMAIN items : ~IsDict(items[k])}
        stop == bad \cup hit
    IN  IF stop = {} THEN [kind |-> "none"]
        ELSE LET m == CHOOSE k \in stop : \A j \in stop : k <= j
             IN  IF m \in bad THEN [kind |-> "raised"] ELSE [kind |-> "found", at |-> m]

\* lines 58-70, given what mapping(name) returned
_choose_id_from_mapping(items) ==
    IF items = <<>> THEN Ok(JNull)
    ELSE LET dicts == {k \in DOMAIN items : IsDict(items[k])}
             geo == FirstOf(items, {k \in dicts : IsGeo(items[k])})
             hotel == FirstOf(items, {k \in dicts : IsHotel(items[k])})
         IN  IF geo.kind = "raised" THEN Raised
             ELSE IF geo.kind = "found" THEN Ok(IdOf(items[geo.at]))
             ELSE IF hotel.kind = "raised" THEN Raised
             ELSE IF hotel.kind = "found" THEN Ok(IdOf(items[hotel.at]))
             ELSE Ok(IdOf(items[1]))

PriceKeys ==
    <<"price1", "price2", "price3", "price4", "price5",
      "price6", "price7", "price8", "price9", "price10">>

\* lines 93-98: the first truthy of price1 .. price10
FirstPrice(item) ==
    LET set == {i \in DOMAIN PriceKeys : Truthy(JGet(item, PriceKeys[i]))}
    IN  IF set = {} THEN JNull
        ELSE JGet(item, PriceKeys[CHOOSE i \in set : \A j \in set : i <= j])

\* lines 92-128: the canonical offer made of one record of the /city answer
Normalize(item) ==
    LET price == FirstPrice(item)
        reviews == Or(JGet(item, "reviews"), JDict(<<>>))
        rating == IF IsDict(reviews) THEN JGet(reviews, "rating") ELSE JNull
        price_value == IF Truthy(price) THEN float(p_clean(str(price))) ELSE JNull
    IN  [vendor_name   |-> JGet(item, "name"),
         hotel_id      |-> Or(Or(JGet(item, "hotelId"), JGet(item, "value")),
                              JGet(item, "document_id")),
         price_str     |-> price,
         price         |-> price_value,
         total_price   |-> JNull,
         rating        |-> rating,
         rating_raw    |-> rating,
         location      |-> Or(Or(JGet(item, "parent_name"), JGet(item, "location")), JNull),
         telephone     |-> JGet(item, "telephone"),
         affiliate_url |-> JNull,
         raw           |-> item]

NormalizeEach(items) == [k \in DOMAIN items |-> Normalize(items[k])]

\* faulty variant: entries that are not records are not skipped, item.get raises
search_by_city_id_NoSkip(data) ==
    IF ~Truthy(data) THEN Ok(<<>>)
    ELSE IF IsList(data)
         THEN IF \E k \in DOMAIN data.list : ~IsDict(data.list[k]) THEN Raised
              ELSE Ok(NormalizeEach(data.list))
    ELSE IF IsDict(data) \/ IsText(data) THEN Ok(<<>>)
    ELSE Raised

\* lines 82-129, given what _get('/city') returned: a dict or a string is
\* iterated by keys or characters, which are skipped; a number or true cannot
\* be iterated (TypeError)
search_by_city_id(data) ==
    IF ~Truthy(data) THEN Ok(<<>>)
    ELSE IF IsList(data) THEN Ok(NormalizeEach(SelectSeq(data.list, IsDict)))
    ELSE IF IsDict(data) \/ IsText(data) THEN Ok(<<>>)
    ELSE Raised

\* lines 241-260, given what _get('/booking') returned
booking_offers(data, loc) ==
    IF ~Truthy(data) THEN Ok(<<>>)
    ELSE IF ~IsList(data) THEN Ok(<<>>)
    ELSE LET rooms == IF IsList(data.list[1]) THEN data.list[1].list ELSE <<>>
             hotel_meta == IF Len(data.list) > 1 THEN data.list[2] ELSE JDict(<<>>)
         IN  IF rooms = <<>> THEN Ok(<<>>)
             ELSE IF ~IsDict(hotel_meta) THEN Raised
             ELSE IF \E k \in DOMAIN rooms : ~IsDict(rooms[k]) THEN Raised
             ELSE Ok([k \in DOMAIN rooms |->
                        [vendor_name   |-> Or(JGet(hotel_meta, "name"), Chars(loc)),
                         hotel_id      |-> Or(JGet(hotel_meta, "hotelid"), JNull),
                         price         |-> JGet(rooms[k], "price"),
                         total_price   |-> JNull,
                         rating        |-> JNull,
                         location      |-> JGet(hotel_meta, "address"),
                         affiliate_url |-> JNull,
                         raw           |-> rooms[k]]])


(***************************************************************************)
(* What the provider answers                                               *)
(***************************************************************************)
MaxCandidates == 2      \* entries of a /mapping answer
MaxEntries == 2         \* entries of a /city answer

Locations == {<<"4", "8", "2">>, <<"P", "a", "r", "i", "s">>}

\* entries of a /mapping answer: a city with and without an identifier, a
\* location known by its document id, a hotel with and without an identifier,
\* other matches, and an entry that is not a record
MappingItems ==
    {JDict(("type" :> Str("GEO")) @@ ("value" :> Num(1))),
     JDict("type" :> Str("GEO")),
     JDict(("data_type" :> Str("LOCATION")) @@ ("document_id" :> Str("loc-4"))),
     JDict(("type" :> Str("HOTEL")) @@ ("value" :> Num(2))),
     JDict("type" :> Str("HOTEL")),
     JDict(("type" :> Str("AIRPORT")) @@ ("value" :> Num(3))),
     JDict(("type" :> Str("AIRPORT")) @@ ("document_id" :> Str("doc-5"))),
     JDict("name" :> Str("Paris")),
     Str("meta")}

ErrorBody == JDict("error" :> Str("quota exceeded"))

MappingBodies ==
    {JList(l) : l \in Lists(MappingItems, MaxCandidates)}
        \cup {JNull, ErrorBody, Num(5)}

\* entries of a /city answer: records whose price is text with a currency sign,
\* a decimal comma behind an empty first price, text without digits, a number,
\* text with two separators; and entries that are not records
CityItems ==
    {JDict(("name" :> Str("A")) @@ ("hotelId" :> Num(11))
            @@ ("price1" :> Chars(<<"$", "1", "2", "0">>))
            @@ ("reviews" :> JDict("rating" :> Num(4)))),
     JDict(("name" :> Str("B")) @@ ("value" :> Num(12))
            @@ ("price1" :> Chars(<<>>)) @@ ("price2" :> Chars(<<"9", "9", ",", "5">>))
            @@ ("parent_name" :> Str("Paris"))),
     JDict(("name" :> Str("C")) @@ ("price1" :> Chars(<<"N", "/", "A">>))),
     JDict(("document_id" :> Str("d-14")) @@ ("price10" :> Num(-80))
            @@ ("reviews" :> Str("none"))),
     JDict(("name" :> Str("E")) @@ ("price1" :> Chars(<<"1", ",", "2", "3", "4", ".", "5">>))),
     Str("trailing_meta_string"),
     JList(<<Num(1)>>)}

CityBodies ==
    {JList(l) : l \in Lists(CityItems, MaxEntries)}
        \cup {JNull, ErrorBody, Str("error"), Num(5), JBool(TRUE)}

Room == JDict("price" :> Num(70))
Meta == JDict(("name" :> Str("H")) @@ ("hotelid" :> Num(9)) @@ ("address" :> Str("1 rue X")))

BookingBodies ==
    {JNull, ErrorBody, JList(<<>>),
     JList(<<JList(<<Room, Room>>), Meta>>),
     JList(<<JList(<<Room>>)>>),
     JList(<<JList(<<>>), Str("meta")>>),
     JList(<<JList(<<Room>>), Str("meta")>>),
     JList(<<JList(<<Str("room")>>), Meta>>),
     JList(<<Meta>>)}

(***************************************************************************)
(* search_hotels, one step per request to the provider                     *)
(***************************************************************************)
Request(path) == requests_made' = Append(requests_made, path)

Return(offers) ==
    /\ returned' = Some(offers)
    /\ mpc' = "done"
    /\ UNCHANGED raised

Raise ==
    /\ raised' = TRUE
    /\ mpc' = "done"
    /\ UNCHANGED returned

\* line 225: search_hotels(location, ...) is called
SearchHotels ==
    /\ mpc \in {"idle", "done"}
    /\ \E loc \in Locations : location' = loc
    /\ mpc' = "start"
    /\ direct' = FALSE
    /\ city_id' = None
    /\ requests_made' = <<>>
    /\ returned' = None
    /\ raised' = FALSE
    /\ city_data' = NoDict
    /\ mapping_items' = <<>>
    /\ chosen' = None
    /\ UNCHANGED <<rankVars, turnVars>>

\* lines 227-230: int(location) succeeds, the city search is called with it
IntegerLocation ==
    /\ mpc = "start"
    /\ int(location) # None
    /\ direct' = TRUE
    /\ city_id' = Some(Num(int(location)[1]))
    /\ Request("/city")
    /\ mpc' = "city"
    /\ UNCHANGED <<location, returned, raised, city_data, mapping_items, chosen>>
    /\ UNCHANGED <<rankVars, turnVars>>

\* lines 227-235: int(location) raises ValueError, which is passed over
NameLocation ==
    /\ mpc = "start"
    /\ int(location) = None
    /\ Request("/mapping")
    /\ mpc' = "mapping"
    /\ UNCHANGED <<location, direct, city_id, returned, raised, city_data,
                   mapping_items, chosen>>
    /\ UNCHANGED <<rankVars, turnVars>>

\* what search_by_city_id gives for what the provider did with the request
CityResult(outcome) ==
    IF _get(outcome).raised THEN Raised ELSE search_by_city_id(_get(outcome).value)

\* lines 230, 237: search_by_city_id returns, and search_hotels returns its list
CityAnswer ==
    /\ mpc = "city"
    /\ \E outcome \in Answers(CityBodies) :
           /\ ~CityResult(outcome).raised
           /\ city_data' = outcome
           /\ Return(CityResult(outcome).value)
    /\ UNCHANGED <<location, direct, city_id, requests_made, mapping_items, chosen>>
    /\ UNCHANGED <<rankVars, turnVars>>

\* lines 230-235: search_by_city_id raises inside the try of the integer path;
\* `except Exception: pass` passes over it and the mapping lookup follows
CityRaiseDirect ==
    /\ mpc = "city"
    /\ direct
    /\ \E outcome \in Answers(CityBodies) :
           /\ CityResult(outcome).raised
           /\ city_data' = outcome
    /\ direct' = FALSE
    /\ Request("/mapping")
    /\ mpc' = "mapping"
    /\ UNCHANGED <<location, city_id, returned, raised, mapping_items, chosen>>
    /\ UNCHANGED <<rankVars, turnVars>>

\* line 237: search_by_city_id raises outside any try
CityRaise ==
    /\ mpc = "city"
    /\ ~direct
    /\ \E outcome \in Answers(CityBodies) :
           /\ CityResult(outcome).raised
           /\ city_data' = outcome
    /\ Raise
    /\ UNCHANGED <<location, direct, city_id, requests_made, mapping_items, chosen>>
    /\ UNCHANGED <<rankVars, turnVars>>

\* lines 235-240: _choose_id_from_mapping returns; a truthy identifier goes to
\* the city search, anything else to the /booking request
MappingAnswer ==
    /\ mpc = "mapping"
    /\ \E outcome \in Answers(MappingBodies) :
           /\ ~_get(outcome).raised
           /\ LET items == mapping(_get(outcome).value)
                  id == _choose_id_from_mapping(items)
              IN  /\ ~id.raised
                  /\ mapping_items' = items
                  /\ chosen' = Some(id.value)
                  /\ IF Truthy(id.value)
                     THEN /\ city_id' = Some(id.value)
                          /\ Request("/city")
                          /\ mpc' = "city"
                     ELSE /\ Request("/booking")
                          /\ mpc' = "booking"
                          /\ UNCHANGED city_id
    /\ UNCHANGED <<location, direct, returned, raised, city_data>>
    /\ UNCHANGED <<rankVars, turnVars>>

\* line 235: _get or an item's .get raises inside _choose_id_from_mapping
MappingRaise ==
    /\ mpc = "mapping"
    /\ \E outcome \in Answers(MappingBodies) :
           /\ \/ _get(outcome).raised
              \/ /\ ~_get(outcome).raised
                 /\ _choose_id_from_mapping(mapping(_get(outcome).value)).raised
           /\ mapping_items' =
                  IF _get(outcome).raised THEN <<>> ELSE mapping(_get(outcome).value)
    /\ Raise
    /\ UNCHANGED <<location, direct, city_id, requests_made, city_data, chosen>>
    /\ UNCHANGED <<rankVars, turnVars>>

BookingResult(outcome) ==
    IF _get(outcome).raised THEN Raised ELSE booking_offers(_get(outcome).value, location)

\* lines 240-260: the /booking request is answered and its rooms are returned
BookingAnswer ==
    /\ mpc = "booking"
    /\ \E outcome \in Answers(BookingBodies) :
           /\ ~BookingResult(outcome).raised
           /\ Return(BookingResult(outcome).value)
    /\ UNCHANGED <<location, direct, city_id, requests_made, city_data, mapping_items, chosen>>
    /\ UNCHANGED <<rankVars, turnVars>>

\* lines 240-257: _get raises, or hotel_meta.get / room.get raises
BookingRaise ==
    /\ mpc = "booking"
    /\ \E outcome \in Answers(BookingBodies) : BookingResult(outcome).raised
    /\ Raise
    /\ UNCHANGED <<location, direct, city_id, requests_made, city_data, mapping_items, chosen>>
    /\ UNCHANGED <<rankVars, turnVars>>

NextClient ==
    \/ SearchHotels
    \/ IntegerLocation
    \/ NameLocation
    \/ CityAnswer
    \/ CityRaiseDirect
    \/ CityRaise
    \/ MappingAnswer
    \/ MappingRaise
    \/ BookingAnswer
    \/ BookingRaise

SpecClient == Init /\ [][NextClient]_vars

(***************************************************************************)
(* Properties of MakcorpsClient                                            *)
(***************************************************************************)
\* C17: search_hotels never raises: for every outcome of the provider it
\* returns a list, empty when there is no offer.
C17_NeverRaises ==
    /\ ~raised
    /\ mpc = "done" => returned # None

Requested(path) == \E k \in DOMAIN requests_made : requests_made[k] = path

\* C18: when the location parses as an integer, search_hotels uses it as the
\* city identifier and makes no mapping lookup in that call, whatever the city
\* search returns and however it fails.
C18_IntegerLocationSkipsMapping ==
    int(location) # None => ~Requested("/mapping")

HasId(it) == IsDict(it) /\ Truthy(IdOf(it))

\* the candidate the stated order prefers among those of cs (positions in items)
Preferred(items, cs) ==
    LET geo == {k \in cs : IsGeo(items[k])}
        hotel == {k \in cs : IsHotel(items[k])}
        first(S) == CHOOSE k \in S : \A j \in S : k <= j
    IN  IF geo # {} THEN first(geo)
        ELSE IF hotel # {} THEN first(hotel)
        ELSE first(cs)

\* C19: _choose_id_from_mapping picks the identifier of a geographic candidate
\* if there is one, else of a hotel candidate, else of the first candidate; a
\* candidate that yields no identifier does not stop a lower-priority
\* candidate that has one from being chosen.
C19_PriorityFirstSuccessWins ==
    (chosen # None /\ mapping_items # <<>>) =>
        LET withId == {k \in DOMAIN mapping_items : HasId(mapping_items[k])}
        IN  withId # {} =>
                chosen[1] = IdOf(mapping_items[Preferred(mapping_items, withId)])

\* the city search was answered with a list
CityListAnswered ==
    /\ city_data # NoDict
    /\ city_data.kind = "json"
    /\ IsList(city_data.body)

CanonicalKeys ==
    {"vendor_name", "hotel_id", "price_str", "price", "total_price", "rating",
     "rating_raw", "location", "telephone", "affiliate_url", "raw"}

\* C20: for every list the provider returns, search_by_city_id returns exactly
\* one canonical offer per entry that is a record, in the order of the entries,
\* and passes over the entries that are not records without an error.
C20_OneOfferPerRecord ==
    CityListAnswered =>
        LET records == SelectSeq(city_data.body.list, IsDict)
        IN  /\ mpc = "done"
            /\ ~raised
            /\ returned # None
            /\ Len(returned[1]) = Len(records)
            /\ \A k \in DOMAIN records :
                  /\ returned[1][k].raw = records[k]
                  /\ DOMAIN returned[1][k] = CanonicalKeys

C20_Witness ==
    /\ CityListAnswered
    /\ Len(city_data.body.list) = 2
    /\ IsDict(city_data.body.list[1])
    /\ city_data.body.list[2] = Str("trailing_meta_string")
    /\ Len(returned[1]) = 1
    /\ returned[1][1].price = Float(<<"1", "2", "0">>)


(***************************************************************************)
(* The range of the score                                                  *)
(***************************************************************************)
\* the score rank_hotels attached to the k-th offer
AttachedScore(k) == ScoreOf(scored_hotels[k])

\* C21: for every offer with a non-negative price and every preferences
\* record with a non-negative budget_max (or none), the score attached by
\* rank_hotels lies between 0 and 100 inclusive: the over-budget penalty of
\* -5 is offset by the review-volume minimum of +5.
C21_ScoreWithinBounds ==
    \A k \in Scored :
        (RawPrice(k) >= 0 /\ Budget >= 0) =>
            /\ AttachedScore(k) >= 0
            /\ AttachedScore(k) <= 100 * Scale
            /\ contrib[k].price >= -(5 * Scale)
            /\ contrib[k].review >= 5 * Scale

\* an offer over budget, with no rating and none of the wanted amenities,
\* scores exactly 0
C21_Witness ==
    /\ Scored # {}
    /\ RawPrice(1) > Budget
    /\ Budget > 0
    /\ contrib[1].price = -(5 * Scale)
    /\ contrib[1].review = 5 * Scale
    /\ AttachedScore(1) = 0

====
